---- MODULE Spec2Model ----
(***************************************************************************)
(* Model of the saudi_id crate (src/src/lib.rs): the Id value type, its    *)
(* four construction paths (new, try_from(u32), try_from(Vec<u8>),         *)
(* from_str), the get_type accessor and the Display rendering.             *)
(*                                                                         *)
(* Representation.  TLC integers are 32-bit signed, the crate computes in  *)
(* u32, so a u32 (and the wider intermediate of a u32 operation) is kept   *)
(* as two limbs [hi, lo] of value hi * 2^16 + lo with lo < 2^16; the value *)
(* fits a u32 exactly when hi < 2^16.  A text is a sequence of             *)
(* one-character strings.                                                  *)
(***************************************************************************)
EXTENDS Integers, Sequences, FiniteSets

VARIABLES build, pc, call, res, seen

vars == <<build, pc, call, res, seen>>

(***************************************************************************)
(* Program constants                                                       *)
(***************************************************************************)
ID_SIZE == 10

IdType == {"Citizen", "Resident"}

prefix(t) == IF t = "Citizen" THEN 1 ELSE 2

CITIZEN_PREFIX == prefix("Citizen")

RESIDENT_PREFIX == prefix("Resident")

(***************************************************************************)
(* u32 arithmetic on limbs                                                 *)
(***************************************************************************)
LimbBase == 65536

Norm(hi, lo) == [hi |-> hi + (lo \div LimbBase), lo |-> lo % LimbBase]

Zero == [hi |-> 0, lo |-> 0]

Small(k) == Norm(0, k)

FitsU32(x) == x.hi < LimbBase

WrapU32(x) == [hi |-> x.hi % LimbBase, lo |-> x.lo]

MulSmall(x, m) == Norm(x.hi * m, x.lo * m)

AddWide(x, y) == Norm(x.hi + y.hi, x.lo + y.lo)

Mod10(x) == (((x.hi % 10) * LimbBase) + x.lo) % 10

Div10(x) == [hi |-> x.hi \div 10, lo |-> (((x.hi % 10) * LimbBase) + x.lo) \div 10]

RECURSIVE Pow10(_)
Pow10(k) == IF k = 0 THEN Small(1) ELSE MulSmall(Pow10(k - 1), 10)

(***************************************************************************)
(* Results                                                                 *)
(***************************************************************************)
Ok(d) == [ok |-> TRUE, digits |-> d]

InvalidId == [ok |-> FALSE, digits |-> <<>>]

(***************************************************************************)
(* The checksum primitive (crate luhnr), as called from lib.rs: the Luhn   *)
(* relation over a digit sequence of any length.  From the last digit      *)
(* leftwards every second digit is doubled (minus 9 when above 9); the     *)
(* sequence is valid when the sum is a multiple of 10.                     *)
(***************************************************************************)
LuhnDouble(d) == IF 2 * d > 9 THEN 2 * d - 9 ELSE 2 * d

RECURSIVE LuhnSum(_, _, _)
LuhnSum(digits, i, dbl) ==
    IF i = 0 THEN 0
    ELSE (IF dbl THEN LuhnDouble(digits[i]) ELSE digits[i])
         + LuhnSum(digits, i - 1, ~dbl)

luhnr_validate(digits) == LuhnSum(digits, Len(digits), FALSE) % 10 = 0

(***************************************************************************)
(* Id::validate                                                            *)
(***************************************************************************)
validate_checksum_only(digits) == luhnr_validate(digits)

validate(digits) == luhnr_validate(digits) /\ Len(digits) = ID_SIZE

(***************************************************************************)
(* impl TryFrom<Vec<u8>> for Id                                            *)
(***************************************************************************)
try_from_vec(digits) == IF validate(digits) THEN Ok(digits) ELSE InvalidId

(***************************************************************************)
(* impl TryFrom<u32> for Id                                                *)
(***************************************************************************)
RECURSIVE Decompose_push(_, _)
Decompose_push(id, digits) ==
    IF id = Zero THEN digits
    ELSE Decompose_push(Div10(id), Append(digits, Mod10(id)))

RECURSIVE Decompose(_, _)
Decompose(id, digits) ==
    IF id = Zero THEN digits
    ELSE Decompose(Div10(id), <<Mod10(id)>> \o digits)

try_from_u32(id) ==
    LET digits == Decompose(id, <<>>)
    IN IF validate(digits) THEN Ok(digits) ELSE InvalidId

(***************************************************************************)
(* Texts: str::parse::<u32> and the decimal rendering of a u32             *)
(***************************************************************************)
DigitChars == <<"0", "1", "2", "3", "4", "5", "6", "7", "8", "9">>

IsDigitChar(c) == \E k \in 1..10 : DigitChars[k] = c

CharDigit(c) == (CHOOSE k \in 1..10 : DigitChars[k] = c) - 1

ParseFail == [ok |-> FALSE, val |-> Zero]

RECURSIVE ParseDigits(_, _, _)
ParseDigits(body, i, acc) ==
    IF i > Len(body) THEN [ok |-> TRUE, val |-> acc]
    ELSE IF ~IsDigitChar(body[i]) THEN ParseFail
    ELSE LET mul == MulSmall(acc, 10)
             add == AddWide(mul, Small(CharDigit(body[i])))
         IN IF ~FitsU32(mul) \/ ~FitsU32(add) THEN ParseFail
            ELSE ParseDigits(body, i + 1, add)

parse_u32(s) ==
    IF s = <<>> THEN ParseFail
    ELSE IF Len(s) = 1 /\ s[1] \in {"+", "-"} THEN ParseFail
    ELSE ParseDigits(IF s[1] = "+" THEN Tail(s) ELSE s, 1, Zero)

RECURSIVE FormatDigits(_, _)
FormatDigits(x, text) ==
    IF x = Zero THEN text
    ELSE FormatDigits(Div10(x), <<DigitChars[Mod10(x) + 1]>> \o text)

FormatU32(x) == IF x = Zero THEN <<"0">> ELSE FormatDigits(x, <<>>)

(***************************************************************************)
(* impl FromStr for Id                                                     *)
(***************************************************************************)
from_str(s) ==
    LET num == parse_u32(s)
    IN IF ~num.ok THEN InvalidId
       ELSE LET r == try_from_u32(num.val)
            IN IF r.ok THEN Ok(r.digits) ELSE InvalidId

(***************************************************************************)
(* impl Display for Id.  Overflow of a u32 operation panics in a build     *)
(* with overflow checks ("debug") and wraps modulo 2^32 without            *)
(* ("release"); a negative ITER_INDEXES - i panics in both (subtraction    *)
(* check, or the unwrap of the failed u32::try_from after the wrap).       *)
(***************************************************************************)
ITER_INDEXES == ID_SIZE - 1

Panic(ovf) == [panic |-> TRUE, overflow |-> ovf, val |-> Zero, text |-> <<>>]

RECURSIVE Fold(_, _, _, _, _)
Fold(digits, i, acc, ovf, b) ==
    IF i > Len(digits)
    THEN [panic |-> FALSE, overflow |-> ovf, val |-> acc, text |-> <<>>]
    ELSE IF ITER_INDEXES - (i - 1) < 0 THEN Panic(ovf)
    ELSE LET term == MulSmall(Pow10(ITER_INDEXES - (i - 1)), digits[i])
             sum  == AddWide(acc, WrapU32(term))
             over == ~FitsU32(term) \/ ~FitsU32(sum)
         IN IF b = "debug" /\ over THEN Panic(TRUE)
            ELSE Fold(digits, i + 1, WrapU32(sum), ovf \/ over, b)

to_string(digits, b) ==
    LET f == Fold(digits, 1, Zero, FALSE, b)
    IN IF f.panic THEN f
       ELSE [panic |-> FALSE, overflow |-> f.overflow, val |-> f.val,
             text |-> FormatU32(f.val)]

(***************************************************************************)
(* Id::get_type                                                            *)
(***************************************************************************)
get_type(digits) ==
    IF digits = <<>> THEN "panic"
    ELSE IF digits[1] = CITIZEN_PREFIX THEN "Citizen"
    ELSE IF digits[1] = RESIDENT_PREFIX THEN "Resident"
    ELSE "panic"

(***************************************************************************)
(* impl Clone for Id                                                       *)
(***************************************************************************)
clone(digits) == digits

(***************************************************************************)
(* Bounded inputs.  A digit sequence of the input universe has a free      *)
(* first digit, a free last digit and a next-to-last digit from MidDigits  *)
(* around a fixed body; Bodies holds the literal of the crate's own test   *)
(* (1581872353) and the all-zero body, which brings in values above 2^31.  *)
(* Elements are decimal digits 0..9; a Vec<u8> element above 9 is outside  *)
(* the model.                                                              *)
(***************************************************************************)
MaxLen == 11

MaxMidShift == 1

Digits == 0..9

MidDigits == {(5 + k) % 10 : k \in 0..MaxMidShift}

Bodies == {<<1, 5, 8, 1, 8, 7, 2, 3, 5, 3>>, <<0, 0, 0, 0, 0, 0, 0, 0, 0, 0>>}

RECURSIVE Pattern(_, _, _, _, _, _)
Pattern(len, i, b, a, m, c) ==
    IF i > len THEN <<>>
    ELSE <<(IF i = 1 THEN a
            ELSE IF i = len THEN c
            ELSE IF i = len - 1 THEN m
            ELSE b[((i - 1) % 10) + 1])>> \o Pattern(len, i + 1, b, a, m, c)

SeqsOfLen(len) ==
    {Pattern(len, 1, b, a, m, c) : b \in Bodies, a \in Digits, m \in MidDigits, c \in Digits}

VecInputs == UNION {SeqsOfLen(len) : len \in 0..MaxLen}

RECURSIVE ValueOf(_, _, _)
ValueOf(d, i, acc) ==
    IF i > Len(d) THEN acc
    ELSE ValueOf(d, i + 1, AddWide(MulSmall(acc, 10), Small(d[i])))

U32Max == [hi |-> LimbBase - 1, lo |-> LimbBase - 1]

U32Inputs ==
    {ValueOf(d, 1, Zero) : d \in {e \in VecInputs : Len(e) <= ID_SIZE /\ FitsU32(ValueOf(e, 1, Zero))}}
    \cup {U32Max}

RECURSIVE Chars(_)
Chars(d) == IF d = <<>> THEN <<>> ELSE <<DigitChars[Head(d) + 1]>> \o Chars(Tail(d))

Decorations ==
    {<< <<>>, <<>> >>, << <<"+">>, <<>> >>, << <<"-">>, <<>> >>, << <<"0">>, <<>> >>,
     << <<" ">>, <<>> >>, << <<>>, <<" ">> >>, << <<>>, <<"a">> >>, << <<"+", "0">>, <<>> >>}

StrInputs == {dec[1] \o Chars(d) \o dec[2] : dec \in Decorations, d \in VecInputs}

(***************************************************************************)
(* luhnr::generate_with_prefix as used by Id::new: any checksum-valid      *)
(* sequence of the requested length that starts with the prefix.           *)
(***************************************************************************)
luhnr_generate_with_prefix(len, pre) ==
    {d \in SeqsOfLen(len) : SubSeq(d, 1, Len(pre)) = pre /\ luhnr_validate(d)}

(***************************************************************************)
(* Id::new                                                                 *)
(***************************************************************************)
new_citizen_only(t) ==
    {Ok(digits) : digits \in luhnr_generate_with_prefix(ID_SIZE, <<CITIZEN_PREFIX>>)}

new(t) ==
    IF t = "Citizen"
    THEN {Ok(digits) : digits \in luhnr_generate_with_prefix(ID_SIZE, <<CITIZEN_PREFIX>>)}
    ELSE {Ok(digits) : digits \in luhnr_generate_with_prefix(ID_SIZE, <<RESIDENT_PREFIX>>)}

(***************************************************************************)
(* The state machine: a caller constructs an Id by one of the four paths,  *)
(* then queries the returned Id, then lets it go out of scope.             *)
(***************************************************************************)
NoCall == [op |-> "none", t |-> "none", n |-> Zero, d |-> <<>>, s |-> <<>>]

NoSeen == [op |-> "none", type |-> "none", str |-> Panic(FALSE), back |-> InvalidId,
           copy |-> <<>>]

Init ==
    /\ build \in {"debug", "release"}
    /\ pc = "idle"
    /\ call = NoCall
    /\ res = InvalidId
    /\ seen = NoSeen

New ==
    /\ pc = "idle"
    /\ \E t \in IdType : \E r \in new(t) :
          /\ call' = [NoCall EXCEPT !.op = "new", !.t = t]
          /\ res' = r
    /\ pc' = "returned"
    /\ UNCHANGED <<build, seen>>

TryFromU32 ==
    /\ pc = "idle"
    /\ \E n \in U32Inputs :
          /\ call' = [NoCall EXCEPT !.op = "try_from_u32", !.n = n]
          /\ res' = try_from_u32(n)
    /\ pc' = "returned"
    /\ UNCHANGED <<build, seen>>

TryFromVec ==
    /\ pc = "idle"
    /\ \E d \in VecInputs :
          /\ call' = [NoCall EXCEPT !.op = "try_from_vec", !.d = d]
          /\ res' = try_from_vec(d)
    /\ pc' = "returned"
    /\ UNCHANGED <<build, seen>>

FromStr ==
    /\ pc = "idle"
    /\ \E s \in StrInputs :
          /\ call' = [NoCall EXCEPT !.op = "from_str", !.s = s]
          /\ res' = from_str(s)
    /\ pc' = "returned"
    /\ UNCHANGED <<build, seen>>

GetType ==
    /\ pc = "returned"
    /\ res.ok
    /\ seen' = [NoSeen EXCEPT !.op = "get_type", !.type = get_type(res.digits)]
    /\ UNCHANGED <<build, pc, call, res>>

ToString ==
    /\ pc = "returned"
    /\ res.ok
    /\ LET str == to_string(res.digits, build)
       IN seen' = [NoSeen EXCEPT !.op = "to_string", !.str = str,
                                 !.back = IF str.panic THEN InvalidId ELSE from_str(str.text)]
    /\ UNCHANGED <<build, pc, call, res>>

Clone ==
    /\ pc = "returned"
    /\ res.ok
    /\ seen' = [NoSeen EXCEPT !.op = "clone", !.copy = clone(res.digits)]
    /\ UNCHANGED <<build, pc, call, res>>

Drop ==
    /\ pc = "returned"
    /\ pc' = "idle"
    /\ call' = NoCall
    /\ res' = InvalidId
    /\ seen' = NoSeen
    /\ UNCHANGED build

Next ==
    \/ New
    \/ TryFromU32
    \/ TryFromVec
    \/ FromStr
    \/ GetType
    \/ ToString
    \/ Clone
    \/ Drop

Spec == Init /\ [][Next]_vars

(***************************************************************************)
(* Vocabulary of the properties, stated independently of the operators     *)
(* above.                                                                  *)
(***************************************************************************)
LuhnTable == <<0, 2, 4, 6, 8, 1, 3, 5, 7, 9>>

RECURSIVE WeightedSum(_, _)
WeightedSum(d, i) ==
    IF i > Len(d) THEN 0
    ELSE (IF (Len(d) - i) % 2 = 1 THEN LuhnTable[d[i] + 1] ELSE d[i]) + WeightedSum(d, i + 1)

LuhnValid(d) == WeightedSum(d, 1) % 10 = 0

BumpLast(d) == [d EXCEPT ![Len(d)] = (d[Len(d)] + 1) % 10]

IsDecimalOf(d, n) ==
    /\ \A i \in 1..Len(d) : d[i] \in Digits
    /\ (d = <<>>) <=> (n = Zero)
    /\ d # <<>> => d[1] # 0
    /\ ValueOf(d, 1, Zero) = n

Below(x, y) == x.hi < y.hi \/ (x.hi = y.hi /\ x.lo < y.lo)

PlainUnsigned(s) ==
    /\ s # <<>>
    /\ \A i \in 1..Len(s) : IsDigitChar(s[i])
    /\ FitsU32(ValueOf([i \in 1..Len(s) |-> CharDigit(s[i])], 1, Zero))

PlainValue(s) == ValueOf([i \in 1..Len(s) |-> CharDigit(s[i])], 1, Zero)

Returned(op) == pc = "returned" /\ call.op = op

FallibleOps == {"try_from_u32", "try_from_vec", "from_str"}

(***************************************************************************)
(* C1.  Prefix invariant: every Id returned as Ok by a fallible            *)
(* constructor has first digit 1 or 2 (so a 10-digit Luhn-valid input      *)
(* with any other first digit is rejected with InvalidId).                 *)
(***************************************************************************)
C1_PrefixInvariant ==
    (pc = "returned" /\ call.op \in FallibleOps /\ res.ok)
        => res.digits[1] \in {CITIZEN_PREFIX, RESIDENT_PREFIX}

(***************************************************************************)
(* C2.  get_type never panics on a constructed Id and returns Citizen for  *)
(* first digit 1 and Resident for first digit 2.                           *)
(***************************************************************************)
C2_GetTypeTotal ==
    (pc = "returned" /\ seen.op = "get_type")
        => /\ seen.type # "panic"
           /\ res.digits[1] = 1 => seen.type = "Citizen"
           /\ res.digits[1] = 2 => seen.type = "Resident"

(***************************************************************************)
(* C3.  Text round trip: for every constructed Id, from_str(to_string())   *)
(* is Ok of an Id with the same digit sequence.                            *)
(***************************************************************************)
C3_TextRoundTrip ==
    (pc = "returned" /\ seen.op = "to_string")
        => /\ ~seen.str.panic
           /\ seen.back = Ok(res.digits)

(***************************************************************************)
(* C4.  Text formatting exactness: to_string() of a constructed Id is      *)
(* exactly 10 digit characters, the in-order concatenation of the decimal  *)
(* text of each element of the digit sequence.                             *)
(***************************************************************************)
C4_TextExact ==
    (pc = "returned" /\ seen.op = "to_string")
        => /\ ~seen.str.panic
           /\ Len(seen.str.text) = 10
           /\ \A i \in 1..Len(seen.str.text) : IsDigitChar(seen.str.text[i])
           /\ seen.str.text = Chars(res.digits)

(***************************************************************************)
(* C5.  Length and checksum gate: try_from(Vec<u8>)(d) is Ok with digits   *)
(* exactly d iff d has length 10 and is Luhn-valid, InvalidId otherwise;   *)
(* an accepted sequence with its last digit changed by +1 mod 10 is        *)
(* rejected.                                                               *)
(***************************************************************************)
C5_LengthChecksumGate ==
    Returned("try_from_vec")
        => /\ res.ok <=> (Len(call.d) = 10 /\ LuhnValid(call.d))
           /\ res.ok => res.digits = call.d
           /\ ~res.ok => res = InvalidId
           /\ res.ok => try_from_vec(BumpLast(call.d)) = InvalidId

C5_Witness ==
    /\ Returned("try_from_vec")
    /\ res.ok
    /\ res.digits = call.d
    /\ try_from_vec(BumpLast(call.d)) = InvalidId

(***************************************************************************)
(* C6.  Generation postcondition: new(t) has 10 digits, first digit        *)
(* t.prefix(), get_type() = t, and try_from(Vec<u8>) of a copy of its      *)
(* digits is Ok of an equal Id.                                            *)
(***************************************************************************)
C6_Generation ==
    Returned("new")
        => /\ res.ok
           /\ Len(res.digits) = 10
           /\ res.digits[1] = prefix(call.t)
           /\ get_type(res.digits) = call.t
           /\ seen.op = "get_type" => seen.type = call.t
           /\ try_from_vec(clone(res.digits)) = Ok(res.digits)

C6_Witness ==
    /\ Returned("new")
    /\ call.t = "Resident"
    /\ seen.op = "get_type"
    /\ seen.type = "Resident"
    /\ try_from_vec(clone(res.digits)) = res

(***************************************************************************)
(* C7.  Text parsing: from_str(s) is InvalidId for every s that is not a   *)
(* plain base-10 unsigned integer (empty, signed, with whitespace or a     *)
(* non-digit, or too large); for every other s it is try_from(u32) of the  *)
(* parsed value.                                                           *)
(***************************************************************************)
C7_TextParsing ==
    Returned("from_str")
        => IF PlainUnsigned(call.s)
           THEN res = try_from_u32(PlainValue(call.s))
           ELSE res = InvalidId

(***************************************************************************)
(* C8.  Integer decomposition: try_from(u32)(n) builds the decimal digits  *)
(* of n, most significant first, without leading zeros (none for 0), is Ok *)
(* of them exactly when they are 10 and Luhn-valid, rejects every n below  *)
(* 1,000,000,000, and equals try_from(Vec<u8>) of the decimal digits.      *)
(***************************************************************************)
C8_IntegerDecomposition ==
    Returned("try_from_u32")
        => LET d == Decompose(call.n, <<>>)
           IN /\ IsDecimalOf(d, call.n)
              /\ res = (IF Len(d) = 10 /\ LuhnValid(d) THEN Ok(d) ELSE InvalidId)
              /\ Below(call.n, Pow10(9)) => res = InvalidId
              /\ res = try_from_vec(d)

C8_Witness ==
    /\ Returned("try_from_u32")
    /\ call.n = ValueOf(<<1, 5, 8, 1, 8, 7, 2, 3, 5, 3>>, 1, Zero)
    /\ res = Ok(<<1, 5, 8, 1, 8, 7, 2, 3, 5, 3>>)

(***************************************************************************)
(* C9.  Display arithmetic stays in range: while formatting a constructed  *)
(* Id no exponent is negative and no term or partial sum exceeds           *)
(* 4,294,967,295 (no panic, no wrap-around).                               *)
(***************************************************************************)
C9_DisplayInRange ==
    (pc = "returned" /\ seen.op = "to_string")
        => ~seen.str.overflow /\ ~seen.str.panic

(***************************************************************************)
(* C10.  Canonical text only: whenever from_str(s) is Ok(id), s is exactly *)
(* the 10-character text of id.                                            *)
(***************************************************************************)
C10_CanonicalText ==
    (Returned("from_str") /\ res.ok)
        => /\ Len(call.s) = 10
           /\ call.s = Chars(res.digits)

====
